---- MODULE Spec2Model ----
(***************************************************************************)
(* Model of AirPollutionData/idescat.py: get_CVP(eoi_code, iP = 1), the    *)
(* population indicator computed from EOI_DATA[eoi_code]["POBLACION_500M"].*)
(*                                                                         *)
(* State: the process-wide dictionary EOI_DATA, the argument list of the   *)
(* last call of get_CVP, how that call ended, and the number of calls.     *)
(* A Python dict is a function whose DOMAIN is its key set, a list is a    *)
(* sequence (Python index i is element i + 1).                             *)
(*                                                                         *)
(* Python floats are IEEE-754 binary64.  A positive double is modelled as  *)
(* [man |-> <<b1,...,b53>>, exp |-> e], b1 = 1, standing for the value     *)
(* (b1...b53 read as a binary integer) * 2^e; zero has an all-zero         *)
(* mantissa.  The population counts are non-negative integers, so no       *)
(* negative double occurs.  Mantissas are kept as bit sequences because    *)
(* they do not fit the integers of the model checker.                      *)
(***************************************************************************)
EXTENDS Integers, Sequences, FiniteSets, TLC

\* ------------------------------------------------------------------------
\* Bounds of the model (not program constants)
\* ------------------------------------------------------------------------
\* population counts of the enumerated records range over 0..MaxCount
MaxCount == 3
\* calls of get_CVP in one behaviour
MaxCalls == 2

VARIABLES EOI_DATA, args, outcome, calls

vars == <<EOI_DATA, args, outcome, calls>>

\* ------------------------------------------------------------------------
\* binary64 arithmetic
\* ------------------------------------------------------------------------
MantBits == 53
\* Bit strings are computed in integer pieces of 6 and 18 digits, so that no
\* intermediate integer exceeds 31 bits as long as the operands of a
\* division are below 2^24 (counts below 167772).

Zeros(n) == [i \in 1..n |-> 0]

FZero == [man |-> Zeros(MantBits), exp |-> 0]

IsZeroBits(bits) == \A i \in 1..Len(bits) : bits[i] = 0

\* the integer that six digits of a bit string, from position i on, stand for
Six(bits, i) ==
    bits[i] * 32 + bits[i + 1] * 16 + bits[i + 2] * 8 + bits[i + 3] * 4
        + bits[i + 4] * 2 + bits[i + 5]

\* the integer that 18 digits, from position i on, stand for
Limb(bits, i) == (Six(bits, i) * 64 + Six(bits, i + 6)) * 64 + Six(bits, i + 12)

\* the integer a bit string stands for (most significant bit first), for
\* strings that stand for less than 2^30
BitsToInt(bits) ==
    LET p == Zeros(30) \o bits
        n == Len(p)
    IN  (Limb(p, n - 29) * 64 + Six(p, n - 11)) * 64 + Six(p, n - 5)

\* the w binary digits of n (0 <= n < 2^w), most significant first
IntToBits(n, w) == [i \in 1..w |-> (n \div 2 ^ (w - i)) % 2]

\* bits + 1 on the same width; an all-ones input wraps to all zeros
IncBits(bits) ==
    LET zs == {i \in 1..Len(bits) : bits[i] = 0}
    IN  IF zs = {} THEN Zeros(Len(bits))
        ELSE LET j == CHOOSE i \in zs : \A z \in zs : z <= i
             IN  [i \in 1..Len(bits) |->
                    IF i < j THEN bits[i] ELSE IF i = j THEN 1 ELSE 0]

\* round-half-to-even of the bit string `bits` to its first `keep` bits;
\* the result has keep bits and `carry` tells that it overflowed to 2^keep
RoundBits(bits, keep) ==
    LET head == SubSeq(bits, 1, keep)
        tail == SubSeq(bits, keep + 1, Len(bits))
        up   == /\ tail # <<>>
                /\ tail[1] = 1
                /\ \/ ~IsZeroBits(SubSeq(tail, 2, Len(tail)))
                   \/ (keep > 0 /\ head[keep] = 1)
        allOnes == \A i \in 1..keep : head[i] = 1
    IN  IF ~up THEN [bits |-> head, carry |-> FALSE]
        ELSE [bits |-> IncBits(head), carry |-> allOnes]

\* n/d = (s.n / s.d) * 2^(s.e) with s.d <= s.n < 2 * s.d  (0 < n, 0 < d)
Normalise(n, d) ==
    IF n < d
    THEN LET c == (d + n - 1) \div n
             e == CHOOSE i \in 1..30 : 2 ^ i >= c /\ 2 ^ (i - 1) < c
         IN  [n |-> n * 2 ^ e, d |-> d, e |-> -e]
    ELSE LET e == CHOOSE i \in 0..29 :
                     n \div 2 ^ i >= d /\ n \div 2 ^ (i + 1) < d
         IN  [n |-> n, d |-> d * 2 ^ e, e |-> e]

RECURSIVE LongDiv(_, _, _)
\* the next `count` binary digits of rem/d (0 <= rem < d) and the remainder
\* left after them, 6 digits at a time
LongDiv(rem, d, count) ==
    LET w == IF count < 6 THEN count ELSE 6
        t == rem * 2 ^ w
    IN  IF count = w
        THEN [bits |-> IntToBits(t \div d, w), rem |-> t % d]
        ELSE LET rest == LongDiv(t % d, d, count - w)
             IN  [bits |-> IntToBits(t \div d, w) \o rest.bits, rem |-> rest.rem]

\* the double nearest to n/d (n >= 0, d > 0 integers below 2^24): one
\* correctly rounded IEEE division of two exactly representable operands
FlDiv(n, d) ==
    IF n = 0 THEN FZero
    ELSE LET s == Normalise(n, d)
             \* the leading digit is 1; 52 more digits, then a guard digit
             q == LongDiv(s.n - s.d, s.d, MantBits)
             g == IF q.rem # 0 THEN 1 ELSE 0
             r == RoundBits(<<1>> \o q.bits \o <<g>>, MantBits)
         IN  IF r.carry
             THEN [man |-> <<1>> \o Zeros(MantBits - 1), exp |-> s.e - MantBits + 2]
             ELSE [man |-> r.bits, exp |-> s.e - MantBits + 1]

\* man * 100 for a mantissa of MantBits digits, as a string of 60 digits,
\* computed limb by limb from the low end
Mul100(man) ==
    LET m  == <<0>> \o man
        t3 == Limb(m, 37) * 100
        t2 == Limb(m, 19) * 100 + t3 \div 2 ^ 18
        t1 == Limb(m, 1) * 100 + t2 \div 2 ^ 18
    IN  IntToBits(t1, 24) \o IntToBits(t2 % 2 ^ 18, 18)
            \o IntToBits(t3 % 2 ^ 18, 18)

\* the double nearest to x * 100 (float multiplication by 100.0); the
\* product of a normalised mantissa by 100 has 59 or 60 digits
FlMul100(x) ==
    IF IsZeroBits(x.man) THEN FZero
    ELSE LET p60 == Mul100(x.man)
             p == IF p60[1] = 1 THEN p60 ELSE SubSeq(p60, 2, 60)
             r == RoundBits(p, MantBits)
             e == x.exp + Len(p) - MantBits
         IN  IF r.carry
             THEN [man |-> <<1>> \o Zeros(MantBits - 1), exp |-> e + 1]
             ELSE [man |-> r.bits, exp |-> e]

\* float.is_integer()
IsInteger(x) ==
    \/ IsZeroBits(x.man)
    \/ x.exp >= 0
    \/ /\ -x.exp < MantBits
       /\ IsZeroBits(SubSeq(x.man, MantBits + x.exp + 1, MantBits))

\* x cut, not rounded, to a multiple of 1/100
Round2Trunc(x) ==
    LET p    == Mul100(x.man) \o Zeros(IF x.exp > 0 THEN x.exp ELSE 0)
        s    == IF x.exp < 0 THEN -x.exp ELSE 0
        full == IF s > Len(p) THEN Zeros(s - Len(p)) \o p ELSE p
    IN  BitsToInt(SubSeq(full, 1, Len(full) - s))

\* round(x, 2) of a double x: the exact binary value of x is rounded
\* half-to-even to a multiple of 1/100.  The result is given as the integer
\* k of hundredths; the double Python returns is the one nearest to k/100.
Round2(x) ==
    LET p    == Mul100(x.man) \o Zeros(IF x.exp > 0 THEN x.exp ELSE 0)
        s    == IF x.exp < 0 THEN -x.exp ELSE 0
        full == IF s > Len(p) THEN Zeros(s - Len(p)) \o p ELSE p
        r    == RoundBits(full, Len(full) - s)
    IN  IF r.carry THEN BitsToInt(<<1>> \o r.bits) ELSE BitsToInt(r.bits)

\* the double that round(x, 2) returns when it rounds to k hundredths
FloatOfHundredths(k) == FlDiv(k, 100)


\* ------------------------------------------------------------------------
\* How a call ends: a float that is not NaN (val hundredths, see Round2),
\* the NaN sentinel np.nan, or an exception propagating to the caller
\* ------------------------------------------------------------------------
NoCall == [kind |-> "none", val |-> 0]
NaN == [kind |-> "nan", val |-> 0]
Value(k) == [kind |-> "value", val |-> k]
Raise(exc) == [kind |-> exc, val |-> 0]

\* ------------------------------------------------------------------------
\* The dataset
\* ------------------------------------------------------------------------
EmptyDict == [k \in {} |-> <<>>]

BUCKET == "POBLACION_500M"

\* the record of station 08101001 quoted in the module's self-test
TestStation == "08101001"
TestRecord == <<52579, 25616, 26940, 7585, 35542, 9280, 36791, 15545, 19944,
                10495, 21981>>

\* Enumerated inputs: a second station, a code that is never a key, the
\* mode values, the counts, and the lengths a stored list may have
OtherStation == "08019004"
UnknownCode == "00000000"
Stations == {TestStation, OtherStation}
Codes == Stations \cup {UnknownCode}
Modes == {-1, 0, 1, 2, 3}
Counts == 0..MaxCount
Others == {0, MaxCount}
Lengths == 0..6

\* the leading fields [TOTAL,HOMES,DONES,P_0_14,P_15_64,P_65_I_MES] of a
\* record
Prefix(total, p_0_14, p_65, other) ==
    <<total, other, other, p_0_14, other, p_65>>

\* the lists a bucket may hold: every prefix of such a record, from the
\* empty list to the six fields get_CVP needs, and the full record of the
\* self-test
Lists ==
    {SubSeq(Prefix(t, y, e, o), 1, n) :
        t \in Counts, y \in Counts, e \in Counts, o \in Others, n \in Lengths}
    \cup {TestRecord}

Entries == {EmptyDict} \cup {[POBLACION_500M |-> l] : l \in Lists}

\* the test station holds the record of the self-test; the other station,
\* when loaded, holds any entry
Datasets ==
    {[s \in {TestStation} |-> [POBLACION_500M |-> TestRecord]]}
    \cup {[s \in Stations |-> IF s = TestStation
                                THEN [POBLACION_500M |-> TestRecord]
                                ELSE e] : e \in Entries}

\* ------------------------------------------------------------------------
\* get_CVP
\* ------------------------------------------------------------------------
\* dict.setdefault(key, default), which stores the default it returns
DictSetDefault(d, key, default) ==
    [val  |-> IF key \in DOMAIN d THEN d[key] ELSE default,
     dict |-> IF key \in DOMAIN d THEN d
              ELSE [k \in DOMAIN d \cup {key} |->
                       IF k = key THEN default ELSE d[k]]]

\* dict.get(key, default): the value and the dict as the call leaves it
DictGet(d, key, default) ==
    [val  |-> IF key \in DOMAIN d THEN d[key] ELSE default,
     dict |-> d]

\* a test that takes a list without the six fields for missing data
NotShort(llista) == Len(llista) < 6

\* a test that never finds the data missing
NotNever(llista) == FALSE

\* `not llista`: only the empty list is false
Not(llista) == llista = <<>>

\* llista[i] raises IndexError unless i < len(llista)
InRange(llista, i) == i < Len(llista)

\* float(n) of an integer count is exact (|n| < 2^53) and so are the sum
\* p_0_14 + p_65 and the product 100.0 * count: these doubles are kept as
\* the integers they equal
float(n) == n

\* a division guarded against a zero divisor
DivisionNaN(num, den) ==
    IF den = 0 THEN NaN ELSE Value(Round2(FlDiv(num, den)))

\* round(num / den, 2): float division raises on a zero divisor
Division(num, den) ==
    IF den = 0 THEN Raise("ZeroDivisionError")
    ELSE Value(Round2(FlDiv(num, den)))

\* the chain with the test of iP = 2 left out
FormulaElse2(iP, total, p_0_14, p_65) ==
    IF iP = 0 THEN Division(100 * p_65, total)
    ELSE IF iP = 1 THEN Division(100 * (p_0_14 + p_65), total)
    ELSE Division(100 * p_65, p_0_14)

\* the chain with mode 2 dividing by total
FormulaShare(iP, total, p_0_14, p_65) ==
    IF iP = 0 THEN Division(100 * p_65, total)
    ELSE IF iP = 1 THEN Division(100 * (p_0_14 + p_65), total)
    ELSE IF iP = 2 THEN Division(100 * p_65, total)
    ELSE NaN

\* the chain with mode 2 dividing youth by elderly
FormulaSwapped(iP, total, p_0_14, p_65) ==
    IF iP = 0 THEN Division(100 * p_65, total)
    ELSE IF iP = 1 THEN Division(100 * (p_0_14 + p_65), total)
    ELSE IF iP = 2 THEN Division(100 * p_0_14, p_65)
    ELSE NaN

\* the if/elif/else over iP
Formula(iP, total, p_0_14, p_65) ==
    IF iP = 0 THEN Division(100 * p_65, total)
    ELSE IF iP = 1 THEN Division(100 * (p_0_14 + p_65), total)
    ELSE IF iP = 2 THEN Division(100 * p_65, p_0_14)
    ELSE NaN

\* the body of get_CVP on the dataset `data`: how it ends (out) and the
\* dataset it leaves (data)
get_CVP(data, eoi_code, iP) ==
    LET g1     == DictGet(data, eoi_code, EmptyDict)
        dict   == g1.val
        g2     == DictGet(dict, BUCKET, <<>>)
        llista == g2.val
        left   == IF eoi_code \in DOMAIN g1.dict
                  THEN [g1.dict EXCEPT ![eoi_code] = g2.dict]
                  ELSE g1.dict
        out    == IF Not(llista) THEN NaN
                  ELSE IF ~InRange(llista, 3) THEN Raise("IndexError")
                  ELSE IF ~InRange(llista, 5) THEN Raise("IndexError")
                  ELSE Formula(iP, float(llista[1]), float(llista[4]),
                               float(llista[6]))
    IN  [out |-> out, data |-> left]

\* a default of 0 for iP
BindIPZero(a) == IF Len(a) >= 2 THEN a[2] ELSE 0

\* binding of the parameter iP = 1 to a positional argument list
BindIP(a) == IF Len(a) >= 2 THEN a[2] ELSE 1

\* ------------------------------------------------------------------------
\* The state machine: the loader has filled EOI_DATA; callers call get_CVP
\* ------------------------------------------------------------------------
Init ==
    /\ EOI_DATA \in Datasets
    /\ args = <<>>
    /\ outcome = NoCall
    /\ calls = 0

Call(a) ==
    /\ calls < MaxCalls
    /\ LET r == get_CVP(EOI_DATA, a[1], BindIP(a))
       IN  /\ EOI_DATA' = r.data
           /\ outcome' = r.out
    /\ args' = a
    /\ calls' = calls + 1

\* get_CVP(eoi_code)
CallDefault == \E code \in Codes : Call(<<code>>)

\* get_CVP(eoi_code, iP)
CallWithMode == \E code \in Codes, mode \in Modes : Call(<<code, mode>>)

Next == CallDefault \/ CallWithMode

Spec == Init /\ [][Next]_vars

\* ------------------------------------------------------------------------
\* What the last call saw
\* ------------------------------------------------------------------------
Called == args # <<>>

\* the list behind the station of the last call, <<>> when the station or
\* its bucket is missing
CalledList ==
    IF Called /\ args[1] \in DOMAIN EOI_DATA
    THEN IF BUCKET \in DOMAIN EOI_DATA[args[1]]
         THEN EOI_DATA[args[1]][BUCKET] ELSE <<>>
    ELSE <<>>

\* the last call passed the mode m explicitly
ModeGiven(m) == Len(args) = 2 /\ args[2] = m

Abs(i) == IF i < 0 THEN -i ELSE i

\* o is a number of hundredths within 0.005 of the exact ratio 100 * n / d
IsRounded(o, n, d) ==
    o.kind = "value" /\ 2 * Abs(o.val * d - 10000 * n) <= d

\* ------------------------------------------------------------------------
\* Claims
\* ------------------------------------------------------------------------

\* C1: a call for a station that is no key of the dataset, or whose
\* POBLACION_500M bucket is absent or empty, returns the NaN sentinel for
\* every mode, supported or not, and raises nothing.
C1_NoDataGivesNaN ==
    Called /\ CalledList = <<>> => outcome = NaN

C1_Witness ==
    /\ ModeGiven(3)
    /\ args[1] = UnknownCode
    /\ args[1] \notin DOMAIN EOI_DATA
    /\ outcome = NaN

\* C2 as stated: for every mode outside {0,1,2} the call returns the NaN
\* sentinel whatever the dataset holds for the station.
C2_UnsupportedModeAnyRecord ==
    Len(args) = 2 /\ args[2] \notin {0, 1, 2} => outcome = NaN

\* C2 amended: for every mode outside {0,1,2} the call returns the NaN
\* sentinel when the station's list is absent, empty or has at least 6
\* fields, a zero total or zero youth count included.
C2_UnsupportedModeGivesNaN ==
    /\ Len(args) = 2
    /\ args[2] \notin {0, 1, 2}
    /\ (Len(CalledList) = 0 \/ Len(CalledList) >= 6)
    => outcome = NaN

C2_Witness ==
    /\ ModeGiven(3)
    /\ Len(CalledList) >= 6
    /\ CalledList[1] = 0
    /\ CalledList[4] = 0
    /\ outcome = NaN

C4_TestRecordMode1 ==
    ModeGiven(1) /\ CalledList = TestRecord => outcome = Value(1765)

\* C5: for the record of the self-test, the call with mode 2 returns 122.35.
C5_TestRecordMode2 ==
    ModeGiven(2) /\ CalledList = TestRecord => outcome = Value(12235)

C5_Witness ==
    ModeGiven(2) /\ CalledList = TestRecord /\ outcome = Value(12235)

\* C6: a call without a mode argument ends as the call with mode 1 does on
\* the same dataset: same number, same sentinel or same error.
C6_DefaultIsMode1 ==
    Len(args) = 1 => outcome = get_CVP(EOI_DATA, args[1], 1).out

C6_Witness ==
    /\ Len(args) = 1
    /\ CalledList = TestRecord
    /\ outcome = Value(3208)

\* C7 as stated: every number returned, multiplied by 100 (in floating
\* point, as a test would), is an integer and is within 0.005 of the exact
\* ratio.
C7_TimesHundredIsInteger ==
    Len(args) = 2 /\ outcome.kind = "value" =>
        LET total  == CalledList[1]
            youth  == CalledList[4]
            elderly == CalledList[6]
        IN  /\ IsInteger(FlMul100(FloatOfHundredths(outcome.val)))
            /\ IF args[2] = 0 THEN IsRounded(outcome, elderly, total)
               ELSE IF args[2] = 1
                    THEN IsRounded(outcome, youth + elderly, total)
                    ELSE IsRounded(outcome, elderly, youth)

\* C7 amended: every number returned is the double nearest to a decimal of
\* at most 2 digits, k/100 with k a non-negative integer within 0.005 of
\* the exact ratio, and rounding it to 2 decimals again gives it back.
C7_TwoDecimals ==
    Len(args) = 2 /\ outcome.kind = "value" =>
        LET total  == CalledList[1]
            youth  == CalledList[4]
            elderly == CalledList[6]
        IN  /\ outcome.val >= 0
            /\ Round2(FloatOfHundredths(outcome.val)) = outcome.val
            /\ IF args[2] = 0 THEN IsRounded(outcome, elderly, total)
               ELSE IF args[2] = 1
                    THEN IsRounded(outcome, youth + elderly, total)
                    ELSE IsRounded(outcome, elderly, youth)

C7_Witness ==
    /\ ModeGiven(1)
    /\ Len(CalledList) = 6
    /\ CalledList[1] = 3
    /\ outcome = Value(13333)
    /\ ~IsInteger(FlMul100(FloatOfHundredths(outcome.val)))

\* C8: no call changes the dataset (no entry is inserted for an unknown
\* station, no record is altered), and a call repeated with the same
\* arguments ends the same way.
C8_DatasetUnchanged ==
    [][/\ EOI_DATA' = EOI_DATA
       /\ (args' = args => outcome' = outcome)]_vars

C8_Witness ==
    /\ calls = 2
    /\ args[1] = UnknownCode
    /\ UnknownCode \notin DOMAIN EOI_DATA
    /\ OtherStation \in DOMAIN EOI_DATA
    /\ EOI_DATA[OtherStation] = EmptyDict
    /\ outcome = NaN

\* C9: for a non-empty list of fewer than 6 fields the call ends in an
\* IndexError for every mode, unsupported ones included; it returns neither
\* the sentinel nor a number.
C9_ShortRecordRaises ==
    Called /\ Len(CalledList) \in 1..5 => outcome = Raise("IndexError")

C9_Witness ==
    /\ ModeGiven(3)
    /\ Len(CalledList) = 5
    /\ outcome = Raise("IndexError")

\* C10: for a list of at least 6 fields the call ends in a
\* ZeroDivisionError exactly when the mode is 0 or 1 and total = 0, or the
\* mode is 2 and youth = 0; a zero in the field the selected formula does
\* not divide by leaves the ordinary number.
C10_DivisionByZero ==
    Len(args) = 2 /\ Len(CalledList) >= 6 =>
        LET total == CalledList[1]
            youth == CalledList[4]
            zero  == \/ args[2] \in {0, 1} /\ total = 0
                     \/ args[2] = 2 /\ youth = 0
        IN  /\ outcome.kind = "ZeroDivisionError" <=> zero
            /\ args[2] \in {0, 1, 2} /\ ~zero => outcome.kind = "value"

C10_Witness ==
    /\ ModeGiven(2)
    /\ Len(CalledList) >= 6
    /\ CalledList[1] # 0
    /\ CalledList[4] = 0
    /\ outcome = Raise("ZeroDivisionError")

====
